---- MODULE Spec2Model ----
(***************************************************************************)
(* Model of staking-paras-cli (src/src/main.rs): the validate, nominate    *)
(* and stakers_info commands, the helpers they call (fund_accounts,        *)
(* get_validators, get_nominators, select_targets, signer_from_seed) and   *)
(* the chain that moves every submitted transaction through its status     *)
(* stream.                                                                 *)
(***************************************************************************)
EXTENDS Integers, Sequences, FiniteSets, TLC

\* ------------------------------------------------------------- bounds
MaxN == 2
MaxNominations == 3
MaxEntries == 2
MaxSeed == 1
\* the width of Balance in bits, scaled down from the 128 of u128
BalanceBits == 3

\* take(32) / [u8; 32]
AddrLen == 32

\* ------------------------------------------------------------ helpers
Min(a, b) == IF a < b THEN a ELSE b

Range(s) == {s[j] : j \in 1..Len(s)}

Distinct(s) == \A j, k \in 1..Len(s) : s[j] = s[k] => j = k

\* Iterator::rev
Reverse(s) == [j \in 1..Len(s) |-> s[Len(s) + 1 - j]]

\* Iterator::take
Take(s, k) == SubSeq(s, 1, Min(k, Len(s)))

\* the trailing k bytes of a key, in the key's own byte order
Suffix(s, k) == SubSeq(s, Len(s) - k + 1, Len(s))

\* sequences over S of length exactly k
SeqsOfLen(S, k) == [1..k -> S]

\* sequences over S of length at most k
SeqsUpTo(S, k) == UNION {SeqsOfLen(S, j) : j \in 0..k}

\* ------------------------------------------------- identities and keys
\* usize::to_string: the decimal digits, as ASCII bytes
RECURSIVE to_string(_)
to_string(x) == IF x < 10 THEN <<48 + x>> ELSE to_string(x \div 10) \o <<48 + (x % 10)>>

\* a buffer that takes the first byte of the seed only
signer_from_first_byte(init_seed) ==
    [j \in 1..AddrLen |-> IF j = 1 /\ Len(init_seed) >= 1 THEN init_seed[1] ELSE 0]

\* the secret buffer of the key pair: [0; 32] with the seed's bytes written from
\* the left (a write to a slice stops at the end of the slice)
signer_from_seed(init_seed) ==
    [j \in 1..AddrLen |-> IF j <= Len(init_seed) THEN init_seed[j] ELSE 0]

\* the values rng.gen::<usize>() may draw: of one decimal digit and of two
Seeds == (0..MaxSeed) \cup {10 * s : s \in 1..MaxSeed}

\* ------------------------------------------------------------ balances
\* Balance values are 0 .. 2^BalanceBits - 1
BalanceModulus == 2 ^ BalanceBits

\* --bond-amount: a small amount and the largest Balance
BondAmounts == {1, BalanceModulus - 1}

\* `bond_amount * 2` overflows when the product is no Balance
Overflows(bond_amount) == bond_amount * 2 >= BalanceModulus

\* the product as a build without overflow checks computes it
WrappingMul2(bond_amount) == (bond_amount * 2) % BalanceModulus

\* A key pair is held in the state by the name of its secret: the usize seed it
\* was derived from, or Alice for the development key of the funder.
Alice == -1

\* the secret buffer of a key pair; that of dev::alice() is no decimal string
Secret(pair) ==
    IF pair = Alice THEN [j \in 1..AddrLen |-> 255]
                    ELSE signer_from_seed(to_string(pair))

\* addresses registered on the chain: two that are each other's byte-reversal
\* and one that reads the same in both directions
Addr1 == [j \in 1..AddrLen |-> IF j = 1 THEN 1 ELSE 0]
Addr2 == [j \in 1..AddrLen |-> IF j = AddrLen THEN 1 ELSE 0]
Addr3 == [j \in 1..AddrLen |-> 2]
Addrs == {Addr1, Addr2, Addr3}

\* storage-key prefixes (hashes) of several lengths and contents
Prefixes == {<< >>, <<9>>, <<7, 8>>}

\* raw keys a storage map may hold: prefix ++ address, and keys too short to
\* hold an address
ShortKeys == {<<5>>}
Keys == {p \o a : p \in Prefixes, a \in Addrs} \cup ShortKeys

\* the account a raw key was built from
AccountOf(k) == IF Len(k) >= AddrLen THEN Suffix(k, AddrLen) ELSE k

\* the contents of a storage map keyed by account: raw keys, one per account
StorageMaps ==
    {m \in SeqsUpTo(Keys, MaxEntries) : Distinct([j \in 1..Len(m) |-> AccountOf(m[j])])}

\* an extraction that fills a short key up with zero bytes
ExtractAccountPadded(k) ==
    [j \in 1..AddrLen |-> IF j <= Len(k) THEN Reverse(k)[j] ELSE 0]

\* k.into_iter().rev().take(32).collect()
ExtractAccount(k) == Take(Reverse(k), AddrLen)

\* ------------------------------------------------------ select_targets
\* a selection that may draw the same position twice
select_targets_with_repetition(n, validators) ==
    {[j \in 1..Min(n, Len(validators)) |-> validators[p[j]]] :
        p \in SeqsOfLen(1..Len(validators), Min(n, Len(validators)))}

\* slice::choose_multiple(rng, n): min(n, len) elements of the slice, chosen at
\* distinct positions, in any order; one outcome per choice of the rng
select_targets(n, validators) ==
    {[j \in 1..Min(n, Len(validators)) |-> validators[p[j]]] :
        p \in {q \in SeqsOfLen(1..Len(validators), Min(n, Len(validators))) : Distinct(q)}}

\* ---------------------------------------------------------------- state
VARIABLES
    pc,                 \* position of the running command
    cmd,                \* the command main dispatched
    result,             \* what main returns: running, ok, err, panic
    out,                \* lines printed to stdout
    number,             \* --number
    nominations,        \* --nominations
    bond_amount,        \* --bond-amount
    fund_with,          \* fund_accounts: the amount of each transfer
    pairs,              \* fund_accounts: the key pairs generated so far
    mint_calls,         \* fund_accounts: the transfers of the batch
    keypairs,           \* the key pairs fund_accounts returned
    bond_calls,         \* (pair, bond_tx) in preparation order
    role_calls,         \* (pair, validate_tx | nominate_tx)
    it,                 \* the peekable iterator: index of the next call
    progress,           \* the status stream held: index into txs, 0 if none
    txs,                \* transactions accepted by the node, in order
    status,             \* the status of each transaction of txs
    stalled,            \* the status stream held emits nothing more
    current_validators, \* the snapshot returned by get_validators
    current_nominators, \* the snapshot returned by get_nominators
    which,              \* the storage map being read
    iterMap,            \* the raw keys of the storage map being iterated
    acc,                \* the reader's result vector so far
    iterEnd,            \* how the reader's loop ended: open, none, err
    reads               \* history: the storage maps iterated, with their sizes

vars == <<pc, cmd, result, out, number, nominations, bond_amount, fund_with, pairs, mint_calls, keypairs,
          bond_calls, role_calls, it, progress, txs, status, stalled,
          current_validators, current_nominators, which, iterMap, acc, iterEnd,
          reads>>

workflowVars == <<pairs, mint_calls, keypairs, bond_calls, role_calls, it>>
chainVars == <<txs, status, stalled>>
readerVars == <<which, iterMap, acc, iterEnd>>
snapshotVars == <<current_validators, current_nominators, reads>>
argVars == <<cmd, number, nominations, bond_amount, fund_with>>

Terminal == {"Finalized", "Failed"}

Init ==
    /\ pc = "main"
    /\ cmd = "none"
    /\ result = "running"
    /\ out = << >>
    /\ number = 0
    /\ nominations = 0
    /\ bond_amount = 0
    /\ fund_with = 0
    /\ pairs = << >>
    /\ mint_calls = << >>
    /\ keypairs = << >>
    /\ bond_calls = << >>
    /\ role_calls = << >>
    /\ it = 1
    /\ progress = 0
    /\ txs = << >>
    /\ status = << >>
    /\ stalled = FALSE
    /\ current_validators = << >>
    /\ current_nominators = << >>
    /\ which = "none"
    /\ iterMap = << >>
    /\ acc = << >>
    /\ iterEnd = "open"
    /\ reads = << >>

\* --------------------------------------------------------------- main
\* a line of println!: its text and the values it interpolates
Line(msg, args) == [msg |-> msg, args |-> args]

\* a head that sends every command on to fund accounts
ConnectThenFund(c, num, noms, amount, connected, wraps) ==
    /\ pc = "main"
    /\ cmd' = c
    /\ number' = MaxN
    /\ nominations' = noms
    /\ bond_amount' = amount
    /\ fund_with' = WrappingMul2(amount)
    /\ pc' = "fund"
    /\ UNCHANGED <<result, out, which, workflowVars, progress, chainVars, snapshotVars,
                   iterMap, acc, iterEnd>>

\* The head of a command. OnlineClient::from_url(..).await? : the connection is
\* made or the command ends with the error. validate and nominate then print
\* their first line and evaluate Some(bond_amount * 2): when the product
\* overflows, a build with overflow checks panics and one without wraps.
Connect(c, num, noms, amount, connected, wraps) ==
    /\ pc = "main"
    /\ cmd' = c
    /\ number' = num
    /\ nominations' = noms
    /\ bond_amount' = amount
    /\ IF ~connected
         THEN /\ pc' = "exit"
              /\ result' = "err"
              /\ UNCHANGED <<which, out, fund_with>>
         ELSE IF c = "stakers_info"
         THEN /\ pc' = "rd_iter"
              /\ which' = "validators"
              /\ UNCHANGED <<result, out, fund_with>>
         ELSE /\ out' = Append(out, Line("Generating and funding", <<num>>))
              /\ IF Overflows(amount) /\ ~wraps
                   THEN /\ pc' = "exit"
                        /\ result' = "panic"
                        /\ UNCHANGED fund_with
                   ELSE /\ pc' = "fund"
                        /\ fund_with' = WrappingMul2(amount)
                        /\ UNCHANGED result
              /\ UNCHANGED which
    /\ UNCHANGED <<workflowVars, progress, chainVars, snapshotVars,
                   iterMap, acc, iterEnd>>

Validate ==
    \E num \in 0..MaxN, amount \in BondAmounts, connected \in BOOLEAN, wraps \in BOOLEAN :
        Connect("validate", num, 0, amount, connected, wraps)

Nominate ==
    \E num \in 0..MaxN, noms \in 0..MaxNominations, amount \in BondAmounts,
       connected \in BOOLEAN, wraps \in BOOLEAN :
        Connect("nominate", num, noms, amount, connected, wraps)

StakersInfo ==
    \E connected \in BOOLEAN : Connect("stakers_info", 0, 0, 0, connected, TRUE)

\* ------------------------------------------------------ fund_accounts
\* an iteration that leaves out the transfer to a key pair it has drawn before
GenPairOncePerKey ==
    /\ pc = "fund"
    /\ Len(pairs) < number
    /\ \E seed \in Seeds :
         LET pair == seed IN
         /\ pairs' = Append(pairs, pair)
         /\ mint_calls' = IF pair \in Range(pairs)
                             THEN mint_calls
                             ELSE Append(mint_calls, [dest |-> pair, value |-> fund_with])
    /\ UNCHANGED <<pc, argVars, result, out, keypairs, bond_calls, role_calls, it,
                   progress, chainVars, snapshotVars, readerVars>>

\* one iteration of `for _n in 0..n`: a random seed, its key pair, its transfer
GenPair ==
    /\ pc = "fund"
    /\ Len(pairs) < number
    /\ \E seed \in Seeds :
         LET pair == seed IN
         /\ pairs' = Append(pairs, pair)
         /\ mint_calls' = Append(mint_calls, [dest |-> pair, value |-> fund_with])
    /\ UNCHANGED <<pc, argVars, result, out, keypairs, bond_calls, role_calls, it,
                   progress, chainVars, snapshotVars, readerVars>>

\* a submission that signs every transaction with the key of the funder
SubmittedByAlice(kind, signer, acct, value, targets) ==
    /\ txs' = Append(txs, [kind |-> kind, signer |-> Alice, acct |-> acct,
                           value |-> value, targets |-> targets])
    /\ status' = Append(status, "Submitted")
    /\ UNCHANGED stalled

\* sign_and_submit_then_watch_default(..).await? : the node accepts the
\* transaction and hands back its status stream, or rejects it
Submitted(kind, signer, acct, value, targets) ==
    /\ txs' = Append(txs, [kind |-> kind, signer |-> signer, acct |-> acct,
                           value |-> value, targets |-> targets])
    /\ status' = Append(status, "Submitted")
    /\ UNCHANGED stalled

\* a rejection that is recorded while the loop goes on
RejectedKeepsGoing ==
    /\ pc' = pc
    /\ result' = "err"
    /\ progress' = 0
    /\ UNCHANGED chainVars

Rejected ==
    /\ pc' = "exit"
    /\ result' = "err"
    /\ progress' = 0
    /\ UNCHANGED chainVars

\* a wait that is over without polling the stream
StreamEndedAtOnce(t) == TRUE

\* `while let Some(_) = progress.next().await {}` leaves the loop when the
\* stream has ended, which it does after a terminal status
StreamEnded(t) == status[t] \in Terminal /\ ~stalled

SubmitFunding ==
    /\ pc = "fund"
    /\ Len(pairs) = number
    /\ \E accepted \in BOOLEAN :
         IF accepted
           THEN /\ Submitted("fund", Alice, 0, 0, << >>)
                /\ progress' = Len(txs) + 1
                /\ pc' = "fund_wait"
                /\ UNCHANGED result
           ELSE Rejected
    /\ UNCHANGED <<argVars, out, workflowVars, snapshotVars, readerVars>>

\* the wait of fund_accounts, its Ok(pairs) and the caller's println
AwaitFunding ==
    /\ pc = "fund_wait"
    /\ StreamEnded(progress)
    /\ keypairs' = pairs
    /\ progress' = 0
    /\ out' = Append(out, Line("Minting done", <<number>>))
    /\ pc' = IF cmd = "nominate" THEN "rd_iter" ELSE "prepare"
    /\ which' = IF cmd = "nominate" THEN "validators" ELSE which
    /\ UNCHANGED <<argVars, result, pairs, mint_calls, bond_calls, role_calls, it,
                   chainVars, snapshotVars, iterMap, acc, iterEnd>>

\* ------------------------------------- get_validators, get_nominators
\* api.storage().at_latest().await?.iter(storage_query).await? : the iterator
\* over the map as the chain holds it, or the error
StorageIter ==
    /\ pc = "rd_iter"
    /\ \/ /\ \E m \in StorageMaps :
                /\ iterMap' = m
                /\ reads' = Append(reads, [map |-> which, entries |-> Len(m)])
          /\ acc' = << >>
          /\ iterEnd' = "open"
          /\ pc' = "rd_next"
          /\ UNCHANGED result
       \/ /\ pc' = "exit"
          /\ result' = "err"
          /\ UNCHANGED <<iterMap, acc, iterEnd, reads>>
    /\ UNCHANGED <<argVars, out, workflowVars, progress, chainVars,
                   current_validators, current_nominators, which>>

\* one turn of `while let Some(Ok(kv)) = results.next().await`
ReaderNext ==
    /\ pc = "rd_next"
    /\ \/ /\ Len(acc) < Len(iterMap)
          /\ LET k == iterMap[Len(acc) + 1]
                 account == ExtractAccount(k)
             IN IF Len(account) = AddrLen
                  THEN /\ acc' = Append(acc, account)
                       /\ UNCHANGED <<pc, result>>
                  ELSE /\ pc' = "exit"
                       /\ result' = "panic"
                       /\ UNCHANGED acc
          /\ UNCHANGED iterEnd
       \/ /\ Len(acc) < Len(iterMap)
          /\ iterEnd' = "err"
          /\ pc' = "rd_ret"
          /\ UNCHANGED <<acc, result>>
       \/ /\ Len(acc) = Len(iterMap)
          /\ iterEnd' = "none"
          /\ pc' = "rd_ret"
          /\ UNCHANGED <<acc, result>>
    /\ UNCHANGED <<argVars, out, workflowVars, progress, chainVars, snapshotVars,
                   which, iterMap>>

\* Ok(validators) / Ok(nominators) reaches the caller; the reader's locals are
\* dropped
ReaderReturn ==
    /\ pc = "rd_ret"
    /\ iterMap' = << >>
    /\ acc' = << >>
    /\ iterEnd' = "open"
    /\ \/ /\ cmd = "nominate"
          /\ current_validators' = acc
          /\ which' = "none"
          /\ pc' = "prepare"
          /\ UNCHANGED <<current_nominators, out, result>>
       \/ /\ cmd = "stakers_info"
          /\ which = "validators"
          /\ current_validators' = acc
          /\ which' = "nominators"
          /\ pc' = "rd_iter"
          /\ UNCHANGED <<current_nominators, out, result>>
       \/ /\ cmd = "stakers_info"
          /\ which = "nominators"
          /\ current_nominators' = acc
          /\ which' = "none"
          /\ out' = out \o <<Line("Stakers info", << >>),
                             Line("validators registered", <<Len(current_validators)>>),
                             Line("nominators registered", <<Len(acc)>>)>>
          /\ pc' = "exit"
          /\ result' = "ok"
          /\ UNCHANGED current_validators
    /\ UNCHANGED <<argVars, workflowVars, progress, chainVars, reads>>

\* ------------------------------------------------- validate, nominate
\* one iteration of `for pair in keypairs.into_iter()`: the bond call and the
\* role call of the pair (nominate draws the pair's targets)
PrepareCall ==
    /\ pc = "prepare"
    /\ Len(bond_calls) < Len(keypairs)
    /\ LET pair == keypairs[Len(bond_calls) + 1] IN
       \E targets \in (IF cmd = "nominate"
                         THEN select_targets(nominations, current_validators)
                         ELSE {<< >>}) :
         /\ bond_calls' = Append(bond_calls, [pair |-> pair, kind |-> "bond",
                                              value |-> bond_amount, targets |-> << >>])
         /\ role_calls' = Append(role_calls, [pair |-> pair, kind |-> cmd,
                                              value |-> 0, targets |-> targets])
    /\ UNCHANGED <<pc, argVars, result, out, pairs, mint_calls, keypairs, it,
                   progress, chainVars, snapshotVars, readerVars>>

\* `let mut it = bond_calls.into_iter().peekable()`
StartBonding ==
    /\ pc = "prepare"
    /\ Len(bond_calls) = Len(keypairs)
    /\ pc' = "bond"
    /\ it' = 1
    /\ UNCHANGED <<argVars, result, out, pairs, mint_calls, keypairs, bond_calls,
                   role_calls, progress, chainVars, snapshotVars, readerVars>>

\* one turn of a submission loop over `calls`: sign and submit the next call
\* (the nominate loop prints the call first); its status stream is polled only
\* when it.peek().is_none(), otherwise dropped
SubmitNext(calls, here, wait) ==
    /\ pc = here
    /\ it <= Len(calls)
    /\ \E accepted \in BOOLEAN :
         IF accepted
           THEN /\ Submitted(calls[it].kind, calls[it].pair, it, calls[it].value, calls[it].targets)
                /\ IF it = Len(calls)
                     THEN /\ progress' = Len(txs) + 1
                          /\ pc' = wait
                          /\ UNCHANGED it
                     ELSE /\ progress' = 0
                          /\ it' = it + 1
                          /\ UNCHANGED pc
                /\ UNCHANGED result
           ELSE Rejected /\ UNCHANGED it
    /\ out' = IF calls[it].kind = "nominate"
                THEN Append(out, Line("nominate_tx, pair", <<calls[it].targets, calls[it].pair>>))
                ELSE out
    /\ UNCHANGED <<argVars, pairs, mint_calls, keypairs, bond_calls, role_calls,
                   snapshotVars, readerVars>>

\* `while let Some(_) = progress.next().await {}` on the last call of the loop
AwaitLast(here, wait) ==
    /\ pc = wait
    /\ StreamEnded(progress)
    /\ progress' = 0
    /\ it' = it + 1
    /\ pc' = here
    /\ UNCHANGED <<argVars, result, out, pairs, mint_calls, keypairs, bond_calls,
                   role_calls, chainVars, snapshotVars, readerVars>>

SubmitBond == SubmitNext(bond_calls, "bond", "bond_wait")

AwaitBond == AwaitLast("bond", "bond_wait")

\* the bond loop is left: println!("Bonding done ..") and the role iterator
BondingDone ==
    /\ pc = "bond"
    /\ it > Len(bond_calls)
    /\ out' = Append(out, Line("Bonding done", <<number>>))
    /\ pc' = "role"
    /\ it' = 1
    /\ UNCHANGED <<argVars, result, pairs, mint_calls, keypairs, bond_calls,
                   role_calls, progress, chainVars, snapshotVars, readerVars>>

SubmitRole == SubmitNext(role_calls, "role", "role_wait")

AwaitRole == AwaitLast("role", "role_wait")

\* the role loop is left: println!("Validating done .." | "Nominations done ..")
\* and Ok(configs)
RoleDone ==
    /\ pc = "role"
    /\ it > Len(role_calls)
    /\ out' = Append(out, Line(IF cmd = "validate" THEN "Validating done"
                                                    ELSE "Nominations done",
                                <<number>>))
    /\ pc' = "exit"
    /\ result' = "ok"
    /\ UNCHANGED <<argVars, pairs, mint_calls, keypairs, bond_calls, role_calls, it,
                   progress, chainVars, snapshotVars, readerVars>>

\* -------------------------------------------------------------- chain
\* the status of a submitted transaction moves
\* Submitted -> Included -> Finalized, or Submitted -> Failed; the stream the
\* program polls may also stall before a terminal status, emitting nothing more
Live(t) == t \in 1..Len(txs) /\ ~(stalled /\ t = progress)

ChainStep(t, from, to) ==
    /\ Live(t)
    /\ status[t] = from
    /\ status' = [status EXCEPT ![t] = to]
    /\ UNCHANGED <<pc, argVars, result, out, workflowVars, progress, txs, stalled,
                   snapshotVars, readerVars>>

ChainInclude == \E t \in 1..Len(txs) : ChainStep(t, "Submitted", "Included")

ChainFinalize == \E t \in 1..Len(txs) : ChainStep(t, "Included", "Finalized")

ChainFail == \E t \in 1..Len(txs) : ChainStep(t, "Submitted", "Failed")

ChainStall ==
    /\ progress # 0
    /\ ~stalled
    /\ status[progress] \notin Terminal
    /\ stalled' = TRUE
    /\ UNCHANGED <<pc, argVars, result, out, workflowVars, progress, txs, status,
                   snapshotVars, readerVars>>

\* ------------------------------------------------------ specification
ProgramNext ==
    \/ Validate
    \/ Nominate
    \/ StakersInfo
    \/ GenPair
    \/ SubmitFunding
    \/ AwaitFunding
    \/ StorageIter
    \/ ReaderNext
    \/ ReaderReturn
    \/ PrepareCall
    \/ StartBonding
    \/ SubmitBond
    \/ AwaitBond
    \/ BondingDone
    \/ SubmitRole
    \/ AwaitRole
    \/ RoleDone

ChainNext ==
    \/ ChainInclude
    \/ ChainFinalize
    \/ ChainFail
    \/ ChainStall

Next == ProgramNext \/ ChainNext

Spec == Init /\ [][Next]_vars

\* fund_accounts on its own: the states in which validate and nominate call it,
\* and its steps up to the submission of the batch
GenInit ==
    /\ pc = "fund"
    /\ cmd \in {"validate", "nominate"}
    /\ result = "running"
    /\ number \in 0..MaxN
    /\ nominations \in IF cmd = "nominate" THEN 0..MaxNominations ELSE {0}
    /\ bond_amount \in BondAmounts
    /\ fund_with = WrappingMul2(bond_amount)
    /\ out = <<Line("Generating and funding", <<number>>)>>
    /\ pairs = << >>
    /\ mint_calls = << >>
    /\ keypairs = << >>
    /\ bond_calls = << >>
    /\ role_calls = << >>
    /\ it = 1
    /\ progress = 0
    /\ txs = << >>
    /\ status = << >>
    /\ stalled = FALSE
    /\ current_validators = << >>
    /\ current_nominators = << >>
    /\ which = "none"
    /\ iterMap = << >>
    /\ acc = << >>
    /\ iterEnd = "open"
    /\ reads = << >>

GenNext == GenPair \/ SubmitFunding

GenSpec == GenInit /\ [][GenNext]_vars

\* --------------------------------- select_targets on drawn arguments
\* a nominate run at the head of its preparation loop: the accounts funded, the
\* snapshot read, for every count and every snapshot over the addresses
SelectInit ==
    /\ pc = "prepare"
    /\ cmd = "nominate"
    /\ result = "running"
    /\ number \in 1..MaxN
    /\ nominations \in 0..MaxNominations
    /\ bond_amount = 1
    /\ fund_with = WrappingMul2(bond_amount)
    /\ pairs = [j \in 1..number |-> (j - 1) % (MaxSeed + 1)]
    /\ mint_calls = [j \in 1..number |-> [dest |-> pairs[j], value |-> fund_with]]
    /\ keypairs = pairs
    /\ out = <<Line("Generating and funding", <<number>>),
                Line("Minting done", <<number>>)>>
    /\ bond_calls = << >>
    /\ role_calls = << >>
    /\ it = 1
    /\ progress = 0
    /\ txs = <<[kind |-> "fund", signer |-> Alice, acct |-> 0, value |-> 0,
                 targets |-> << >>]>>
    /\ status = <<"Finalized">>
    /\ stalled = FALSE
    /\ current_validators \in SeqsUpTo(Addrs, MaxEntries)
    /\ current_nominators = << >>
    /\ which = "none"
    /\ iterMap = << >>
    /\ acc = << >>
    /\ iterEnd = "open"
    /\ reads = <<[map |-> "validators", entries |-> Len(current_validators)]>>

SelectNext == PrepareCall

SelectSpec == SelectInit /\ [][SelectNext]_vars

\* ------------------------------------------------------------- claims
RoleKinds == {"validate", "nominate"}

TxsOf(kinds) == {t \in 1..Len(txs) : txs[t].kind \in kinds}

Printed(m) == \E j \in 1..Len(out) : out[j].msg = m

\* C1: within the staking stage, every bond transaction of the run has reached
\* a terminal status before any role transaction of the run is submitted.
C1_AllBondsTerminalBeforeAnyRole ==
    TxsOf(RoleKinds) # {} => \A b \in TxsOf({"bond"}) : status[b] \in Terminal

C3_StageSuccessAfterAllTerminal ==
    /\ Printed("Bonding done") => \A b \in TxsOf({"bond"}) : status[b] \in Terminal
    /\ (Printed("Validating done") \/ Printed("Nominations done"))
           => \A r \in TxsOf(RoleKinds) : status[r] \in Terminal

\* C4: when the funding batch has Failed, no bond and no role transaction is
\* submitted and the workflow does not end with success.
C4_FundingFailureAborts ==
    (Len(txs) >= 1 /\ status[1] = "Failed")
        => /\ TxsOf({"bond"} \cup RoleKinds) = {}
           /\ result # "ok"

\* C5: an account's role transaction is submitted only when that account's bond
\* transaction is at least included.
C5_OwnBondIncludedBeforeRole ==
    \A r \in TxsOf(RoleKinds) :
        \E b \in TxsOf({"bond"}) :
            /\ txs[b].acct = txs[r].acct
            /\ status[b] \in {"Included", "Finalized"}

\* C6: the workflow never takes the step that reports plain success (the last
\* "done" line and Ok) in a run in which a submitted transaction has Failed.
C6_NoPlainSuccessAfterFailure ==
    [][(result = "running" /\ result' = "ok")
          => \A t \in 1..Len(txs) : status[t] # "Failed"]_vars

\* C7: a confirmation wait is bounded: when the stream the workflow waits on
\* has stalled, the workflow still has a step to take (the expiry of the wait).
C7_WaitIsBounded ==
    (pc \in {"fund_wait", "bond_wait", "role_wait"} /\ stalled) => ENABLED ProgramNext

\* C8: for every entry whose key holds at least 32 bytes, the address the reader
\* yields is the last 32 bytes of the key, in the key's byte order.
C8_AddressIsKeySuffix ==
    \A j \in 1..Len(acc) :
        Len(iterMap[j]) >= AddrLen => acc[j] = Suffix(iterMap[j], AddrLen)

\* C9: a list the reader returns holds one address for every entry of the
\* storage map; a fetch that failed mid-iteration does not end in a returned list.
C9_SnapshotIsComplete ==
    pc = "rd_ret" => (Len(acc) = Len(iterMap) /\ iterEnd = "none")

\* C10: for a snapshot V of distinct addresses, every target list drawn by
\* select_targets(count, V) has exactly min(count, |V|) elements, pairwise
\* distinct and all in V; it is empty for empty V and has |V| elements when
\* count exceeds |V|.
C10_SelectTargetsCapped ==
    Distinct(current_validators) =>
        \A j \in 1..Len(role_calls) :
            LET t == role_calls[j].targets IN
            /\ Len(t) = Min(nominations, Len(current_validators))
            /\ Distinct(t)
            /\ Range(t) \subseteq Range(current_validators)
            /\ (current_validators = << >> => t = << >>)
            /\ (nominations > Len(current_validators) => Len(t) = Len(current_validators))

\* C10 witness: targets drawn from two distinct validators with more requested
C10_Witness ==
    /\ Len(role_calls) >= 1
    /\ Distinct(current_validators)
    /\ Len(current_validators) >= 2
    /\ nominations > Len(current_validators)
    /\ Len(role_calls[1].targets) = Len(current_validators)

\* the program is inside get_validators or get_nominators
Reading == pc \in {"rd_iter", "rd_next", "rd_ret"}

\* C11: in nominate the validator snapshot is read once, after the wait on the
\* funding batch has ended and before any target is selected or any bond is
\* submitted, and every nominate transaction carries pairwise distinct
\* addresses of that snapshot, min(nominations, snapshot size) of them.
C11_SnapshotOnceBeforeSelection ==
    cmd = "nominate" =>
        /\ Len(reads) <= 1
        /\ Reading =>
              /\ Len(txs) = 1
              /\ status[1] \in Terminal
              /\ bond_calls = << >>
              /\ role_calls = << >>
        /\ (bond_calls # << >> \/ TxsOf({"bond"}) # {}) => Len(reads) = 1
        /\ \A t \in TxsOf({"nominate"}) :
              /\ Distinct(txs[t].targets)
              /\ Range(txs[t].targets) \subseteq Range(current_validators)
              /\ Len(txs[t].targets) = Min(nominations, Len(current_validators))

C11_Witness ==
    /\ TxsOf({"nominate"}) # {}
    /\ nominations > Len(current_validators)
    /\ Len(current_validators) = MaxEntries

\* the funding batch has been handed to the node
BatchSubmitted == Len(txs) >= 1 /\ txs[1].kind = "fund"

\* the secret buffers of the recipients of the batch, in the order of the batch
RecipientSecrets == [j \in 1..Len(mint_calls) |-> Secret(mint_calls[j].dest)]

\* C12 as stated: the submitted funding batch holds exactly n transfers, one per
\* generated identity, and its n recipients are pairwise distinct for every
\* outcome of the seed draws.
C12_RecipientsAlwaysDistinct ==
    BatchSubmitted =>
        /\ Len(mint_calls) = number
        /\ \A j \in 1..Len(mint_calls) : mint_calls[j].dest = pairs[j]
        /\ Distinct(RecipientSecrets)

\* C12: the submitted funding batch holds exactly n transfers, the j-th to the
\* j-th generated identity, and its recipients are pairwise distinct whenever
\* the seeds drawn are pairwise distinct.
C12_OneTransferPerIdentity ==
    /\ Len(mint_calls) = Len(pairs)
    /\ BatchSubmitted =>
          /\ Len(mint_calls) = number
          /\ \A j \in 1..Len(mint_calls) : mint_calls[j].dest = pairs[j]
          /\ Distinct(pairs) => Distinct(RecipientSecrets)

C12_Witness ==
    /\ BatchSubmitted
    /\ number = MaxN
    /\ Distinct(pairs)
    /\ \E j \in 1..Len(pairs) : pairs[j] >= 10

\* no transaction of the run has Failed and no status stream is held back
NoneFailed == ~stalled /\ \A t \in 1..Len(txs) : status[t] # "Failed"

\* C13: a run of validate(n) in which the chain fails no transaction ends with
\* success in a state where the n generated accounts are funded, bonded and
\* registered as validators: the funding batch, the n bonds and the n validate
\* transactions are all Finalized.
C13_ValidateEndsWithAllStaked ==
    (cmd = "validate" /\ result = "ok" /\ NoneFailed) =>
        /\ Len(txs) = 1 + 2 * number
        /\ Len(mint_calls) = number
        /\ \A j \in 1..number :
              /\ \E b \in TxsOf({"bond"}) : txs[b].signer = pairs[j]
              /\ \E r \in TxsOf({"validate"}) : txs[r].signer = pairs[j]
        /\ \A t \in 1..Len(txs) : status[t] = "Finalized"

\* the values interpolated into the printed line of text m
Reported(m) == out[CHOOSE j \in 1..Len(out) : out[j].msg = m].args

\* C14: stakers_info reports the number of entries of the validators map and
\* the number of entries of the nominators map, as the chain held them when
\* they were read.
C14_ReportsMapSizes ==
    (cmd = "stakers_info" /\ Printed("nominators registered")) =>
        /\ Len(reads) = 2
        /\ reads[1].map = "validators"
        /\ reads[2].map = "nominators"
        /\ Reported("validators registered") = <<reads[1].entries>>
        /\ Reported("nominators registered") = <<reads[2].entries>>

\* the reader's loop is about to be handed an entry whose key is too short
AtShortKey ==
    /\ pc = "rd_next"
    /\ Len(acc) < Len(iterMap)
    /\ Len(iterMap[Len(acc) + 1]) < AddrLen

\* C15: the step in which the reader is handed an entry whose raw key is shorter
\* than 32 bytes ends the run with the fatal error: it produces no address for
\* the entry and returns no snapshot, and nothing is read, returned or printed
\* after it.
C15_ShortKeyIsFatal ==
    [][ /\ (AtShortKey /\ iterEnd' # "err" /\ <<pc, acc>>' # <<pc, acc>>) =>
              /\ result' = "panic"
              /\ pc' = "exit"
              /\ UNCHANGED <<acc, current_validators, current_nominators, out, txs>>
        /\ result = "panic" =>
              UNCHANGED <<pc, result, acc, current_validators, current_nominators, out, txs>>
      ]_vars

C15_Witness ==
    /\ result = "panic"
    /\ iterMap # << >>
    /\ Len(iterMap[Len(acc) + 1]) < AddrLen

\* C16: the amount of every bond transaction does not exceed the amount the
\* funding batch transfers to the account that signs it.
C16_BondWithinFunding ==
    \A b \in TxsOf({"bond"}) :
        /\ \E j \in 1..Len(mint_calls) : mint_calls[j].dest = txs[b].signer
        /\ txs[b].value <= mint_calls[CHOOSE j \in 1..Len(mint_calls) :
                                         mint_calls[j].dest = txs[b].signer].value

\* C17: the key pairs generated from pairwise distinct seeds have pairwise
\* distinct secret buffers, each of 32 bytes: the decimal digits of the seed
\* from the left, then zero bytes.
C17_DistinctSeedsDistinctSecrets ==
    \A j \in 1..Len(pairs) :
        LET digits == to_string(pairs[j])
            secret == Secret(pairs[j])
        IN /\ Len(secret) = AddrLen
           /\ SubSeq(secret, 1, Len(digits)) = digits
           /\ \A i \in (Len(digits) + 1)..AddrLen : secret[i] = 0
           /\ \A k \in 1..Len(pairs) :
                 pairs[j] # pairs[k] => secret # Secret(pairs[k])

C17_Witness ==
    /\ Len(pairs) = MaxN
    /\ 1 \in Range(pairs)
    /\ 10 \in Range(pairs)

\* C18: stakers_info submits no transaction and generates no identity: it builds
\* no key pair, no transfer, no bond call and no role call.
C18_StakersInfoOnlyReads ==
    cmd = "stakers_info" =>
        /\ txs = << >>
        /\ status = << >>
        /\ pairs = << >>
        /\ keypairs = << >>
        /\ mint_calls = << >>
        /\ bond_calls = << >>
        /\ role_calls = << >>

C18_Witness ==
    /\ cmd = "stakers_info"
    /\ result = "ok"
    /\ Len(reads) = 2
    /\ current_validators # << >>

\* no two transactions of the run are the same call of the same account
SubmittedOnce ==
    \A s, t \in 1..Len(txs) :
        (txs[s].kind = txs[t].kind /\ txs[s].acct = txs[t].acct) => s = t

\* C19: a run that has returned an error has returned for good and submits no
\* further transaction, and no transaction is submitted twice in a run.
C19_StopsAtFirstRejection ==
    [][ /\ result = "err" => (pc = "exit" /\ UNCHANGED <<pc, result, txs, it, out>>)
        /\ SubmittedOnce'
      ]_vars

\* a bond was rejected after the bond of an earlier account was accepted
C19_Witness ==
    /\ result = "err"
    /\ number = MaxN
    /\ Len(txs) = 2
    /\ role_calls # << >>

\* the transactions submitted so far are the head of the run's sequence: the
\* funding batch signed by the funder, then the bond of each generated identity
\* in generation order, then the role transaction of each in the same order,
\* each signed by the identity it is for
InRunOrder ==
    /\ Len(txs) <= 1 + 2 * number
    /\ \A t \in 1..Len(txs) :
          IF t = 1
            THEN txs[t].kind = "fund" /\ txs[t].signer = Alice
          ELSE IF t <= 1 + number
            THEN /\ txs[t].kind = "bond"
                 /\ txs[t].acct = t - 1
                 /\ txs[t].signer = pairs[t - 1]
            ELSE /\ txs[t].kind = cmd
                 /\ txs[t].acct = t - 1 - number
                 /\ txs[t].signer = pairs[t - 1 - number]
                 /\ txs[t].signer = txs[t - number].signer

\* C20 as stated, for the runs that have ended without the error of a rejected
\* submission: exactly 1 + 2n transactions have been submitted, in the run's
\* order.
C20_AllSubmittedUnlessRejected ==
    (cmd \in RoleKinds /\ pc = "exit" /\ result # "err") =>
        (InRunOrder /\ Len(txs) = 1 + 2 * number)

\* C20: in every run of validate(n) or nominate(n) the transactions submitted
\* are in the run's order, and a run that returns Ok has submitted exactly
\* 1 + 2n of them.
C20_SubmittedInRunOrder ==
    cmd \in RoleKinds =>
        /\ InRunOrder
        /\ result = "ok" => Len(txs) = 1 + 2 * number

C20_Witness ==
    /\ cmd = "nominate"
    /\ result = "ok"
    /\ number = MaxN
    /\ Len(txs) = 1 + 2 * MaxN
    /\ Distinct(pairs)

====
